---- MODULE Spec2Model ----
(***************************************************************************)
(* Model of the plugin hook / filter-chain engine and the plugin lifecycle *)
(* of exadmin/views/base.py: filter_chain, filter_hook,                    *)
(* BaseAdminView.__init__ and BaseAdminView.init_plugin, as_view's view,   *)
(* ModelAdminView.__init__, and the nested hook of                         *)
(* CommAdminView.get_context.                                              *)
(*                                                                         *)
(* One host (admin view) is constructed from its configured plugin         *)
(* classes; after a successful construction the caller invokes a           *)
(* hook-decorated method on it any number of times.  Python closures are   *)
(* represented as data: a continuation is the sequence of plugin           *)
(* implementations still to run, outermost first, the empty sequence being *)
(* the hook's own _inner_method (the base method).                         *)
(***************************************************************************)
EXTENDS Integers, Sequences, FiniteSets, TLC

\* Largest number of plugin classes configured on the host type.
MaxPlugins == 3

\* getattr(fm, 'priority', 10): the default priority.
DefaultPriority == 10

(***************************************************************************)
(* Python values.  A value is a record [ty, v]; v is a sequence of strings *)
(* (the keys of a dict in insertion order, the digits of an int, the name  *)
(* of a bool, the characters of a str).                                    *)
(***************************************************************************)
PyNone == [ty |-> "None", v |-> <<>>]
PyFalse == [ty |-> "bool", v |-> <<"False">>]
PyTrue == [ty |-> "bool", v |-> <<"True">>]
PyZero == [ty |-> "int", v |-> <<"0">>]
PyEmptyStr == [ty |-> "str", v |-> <<>>]
PyDict(keys) == [ty |-> "dict", v |-> keys]
PyList(items) == [ty |-> "list", v |-> items]

\* Python's truth value of x (bool(x)).  The engine itself tests identity
\* only (PyIs below); the truth value and equality are what a test written
\* as `if not result` or `result != False` would use instead.
PyTruthy(x) ==
    CASE x.ty = "None" -> FALSE
      [] x.ty = "bool" -> x.v = <<"True">>
      [] x.ty = "int" -> x.v # <<"0">>
      [] OTHER -> x.v # <<>>

\* Python's x == y for the values above: bool is a subclass of int, so
\* False == 0 and True == 1.
PyNum(x) ==
    CASE x.ty = "bool" -> (IF x.v = <<"True">> THEN <<"1">> ELSE <<"0">>)
      [] OTHER -> x.v
PyEq(x, y) ==
    IF x.ty \in {"bool", "int"} /\ y.ty \in {"bool", "int"}
    THEN PyNum(x) = PyNum(y)
    ELSE x = y

\* Python's x is y for None, the bool singletons and small ints: the types
\* and the values agree.
PyIs(x, y) == x.ty = y.ty /\ x.v = y.v

(***************************************************************************)
(* Outcomes of a call: a returned value or a raised exception.             *)
(***************************************************************************)
Ret(x) == [kind |-> "return", val |-> x, exc |-> ""]
Raise(e) == [kind |-> "raise", val |-> PyNone, exc |-> e]

\* What the body of a decorated method does when it begins by calling the
\* inherited method of the same name, itself decorated (CommAdminView's
\* get_context): b is the outcome of the body of the inherited method.
Super(b) == [kind |-> "super", val |-> b.val, exc |-> b.exc]
InheritedBody(base) == IF base.exc = "" THEN Ret(base.val) ELSE Raise(base.exc)
IsRaise(o) == o.kind = "raise"

\* One entry of an execution log.
\*   ev    what happened
\*   p     the plugin instance concerned (0: the host itself)
\*   first what a plugin implementation received as its first argument
\*   a     the positional arguments passed along
Event(ev, p, first, a) == [ev |-> ev, p |-> p, first |-> first, a |-> a]

(***************************************************************************)
(* Plugin classes.  A plugin class is a record:                            *)
(*   ctor     what its constructor does: "ok", "raise" (raises            *)
(*            PluginError), "call_hook" (calls the hook on admin_view) or  *)
(*            "try_hook" (the same inside try/except Exception: pass)      *)
(*   init     what its init_request does: "return", "raise", "call_hook"   *)
(*            or "try_hook" (as above, then it returns initval)            *)
(*   initval  the value init_request returns                               *)
(*   attr     its attribute named like the hook: "absent", "noncallable"   *)
(*            or "callable"                                                *)
(*   fargs    getargspec(fm)[0] of that callable: its parameter names      *)
(*   body     what the callable does (see fm below)                        *)
(*   hasprio, prio   whether the callable has a priority attribute, and it *)
(***************************************************************************)
PluginClass(ctor, init, initval, attr, fargs, body, hasprio, prio) ==
    [ctor |-> ctor, init |-> init, initval |-> initval, attr |-> attr,
     fargs |-> fargs, body |-> body, hasprio |-> hasprio, prio |-> prio]

\* The dict key a plugin instance adds: its position among the configured
\* plugin classes.
KeyOf(p) == ToString(p)

\* d[k] = ... on value d: a TypeError on a value that is no dict; an existing
\* key keeps its place.
SetItem(d, k) ==
    IF d.ty # "dict" THEN Raise("TypeError")
    ELSE IF \E i \in 1..Len(d.v) : d.v[i] = k THEN Ret(d)
    ELSE Ret(PyDict(Append(d.v, k)))

\* The context of one hook invocation: the host (self), the arguments of the
\* call and what the body of the decorated method does when it runs.
HookCall(self, args, base) == [self |-> self, args |-> args, base |-> base]

RECURSIVE CallFunc(_, _, _)
RECURSIVE filter_hook(_, _, _, _)

(***************************************************************************)
(* fm(...): the hook implementation of plugin instance p, called by the    *)
(* engine with `first` as its first argument ("nothing" for an arity-1     *)
(* implementation, "continuation" with the closure func, "result" with the *)
(* value val) followed by the arguments a.  Bodies:                        *)
(*   "raise"  raises PluginError                                           *)
(*   "none"   returns None without using its argument                      *)
(*   "value"  returns its own dict without using its argument              *)
(*   "add"    takes the inner result (calling the continuation once when   *)
(*            it was given one), sets its key in it and returns it         *)
(*   "pass"   returns the inner result as it is (calling the continuation  *)
(*            once when it was given one)                                  *)
(*   "catch"  as "pass", with the call of the continuation inside          *)
(*            try/except Exception: on an exception it returns its own     *)
(*            dict                                                         *)
(*   "twice"  as "add", but it calls the continuation twice and uses the   *)
(*            second result                                                *)
(*   "rearg"  calls the continuation with an argument of its own and       *)
(*            returns what that gives                                      *)
(***************************************************************************)
\* The rest of an "add" body once r, the inner result, is there: an exception
\* of the continuation passes through the implementation.
AddKey(p, r) ==
    IF IsRaise(r.out) THEN r
    ELSE [out |-> SetItem(r.out.val, KeyOf(p)), log |-> r.log]

\* The rest of a "catch" body once r, what the continuation gave, is there.
CatchOr(p, r) ==
    IF IsRaise(r.out)
    THEN [out |-> Ret(PyDict(<<KeyOf(p)>>)),
          log |-> Append(r.log, Event("caught", p, r.out.exc, <<>>))]
    ELSE r

\* The rest of a "twice" body once r, what the first call of the continuation
\* gave, is there: the second call, and the key set in its result.
SecondCall(p, func, hc, r) ==
    IF IsRaise(r.out) THEN r
    ELSE AddKey(p, CallFunc(func, hc, Append(r.log, Event("cont", p, "", <<>>))))

\* The argument a "rearg" body passes to its continuation.
OwnArgs == <<"other">>

\* Closures that take arguments and run the inner chain with them in place of
\* the arguments of the hook invocation.
CallFuncWith_accepting(func, cargs, hc, log) ==
    CallFunc(func, [hc EXCEPT !.args = cargs], log)

\* func(*cargs) on a closure: both _inner_method functions are defined without
\* parameters, so that a call with arguments is a TypeError and runs nothing.
CallFuncWith(func, cargs, hc, log) ==
    IF cargs # <<>> THEN [out |-> Raise("TypeError"), log |-> log]
    ELSE CallFunc(func, hc, log)

fm(p, first, val, func, a, hc, log) ==
    LET cls == hc.self.classes[p]
        log1 == Append(log, Event("call", p, first, a))
    IN  CASE cls.body = "raise" -> [out |-> Raise("PluginError"), log |-> log1]
          [] cls.body = "none" -> [out |-> Ret(PyNone), log |-> log1]
          [] cls.body = "value" -> [out |-> Ret(PyDict(<<KeyOf(p)>>)), log |-> log1]
          [] cls.body = "add" ->
                IF first = "continuation"
                THEN AddKey(p, CallFunc(func, hc, Append(log1, Event("cont", p, "", <<>>))))
                ELSE AddKey(p, [out |-> Ret(val), log |-> log1])
          [] cls.body = "pass" ->
                IF first = "continuation"
                THEN CallFunc(func, hc, Append(log1, Event("cont", p, "", <<>>)))
                ELSE [out |-> Ret(val), log |-> log1]
          [] cls.body = "catch" ->
                IF first = "continuation"
                THEN CatchOr(p, CallFunc(func, hc, Append(log1, Event("cont", p, "", <<>>))))
                ELSE [out |-> Ret(val), log |-> log1]
          [] cls.body = "twice" ->
                IF first = "continuation"
                THEN SecondCall(p, func, hc,
                                CallFunc(func, hc, Append(log1, Event("cont", p, "", <<>>))))
                ELSE AddKey(p, [out |-> Ret(val), log |-> log1])
          [] cls.body = "rearg" ->
                IF first = "continuation"
                THEN CallFuncWith(func, OwnArgs, hc,
                                  Append(log1, Event("cont", p, "", OwnArgs)))
                ELSE [out |-> Ret(val), log |-> log1]

\* filter_chain._inner_method: the stage the engine builds around the
\* implementation of plugin instance p, with func the next inner closure.
\* The log once func() returned to the stage of plugin p: the entry names the
\* type of the value it returned.
Returned(p, r) == Append(r.log, Event("result", p, r.out.val.ty, <<>>))

\* Lines 44-48 testing the truth value of result (if not result) instead of
\* result is None.
OnlySelfArg_truthy(p, r, hc) ==
    IF IsRaise(r.out) THEN r
    ELSE IF ~PyTruthy(r.out.val)
         THEN fm(p, "nothing", PyNone, <<>>, <<>>, hc, Returned(p, r))
         ELSE [out |-> Raise("IncorrectPluginArg"), log |-> Returned(p, r)]

\* Lines 44-48 calling fm() for its effect only: the stage returns the inner
\* result, None, whatever fm() returned (r2 is what fm() gave).
DiscardReturn(r2) ==
    IF IsRaise(r2.out) THEN r2 ELSE [out |-> Ret(PyNone), log |-> r2.log]

OnlySelfArg_returns_inner(p, r, hc) ==
    IF IsRaise(r.out) THEN r
    ELSE IF PyIs(r.out.val, PyNone)
         THEN DiscardReturn(fm(p, "nothing", PyNone, <<>>, <<>>, hc, Returned(p, r)))
         ELSE [out |-> Raise("IncorrectPluginArg"), log |-> Returned(p, r)]

\* Lines 44-48 raising on a non-empty result only: an empty dict, list or
\* str counts as no result.
OnlySelfArg_nonempty(p, r, hc) ==
    IF IsRaise(r.out) THEN r
    ELSE IF \/ PyIs(r.out.val, PyNone)
            \/ r.out.val.ty \in {"dict", "list", "str"} /\ r.out.val.v = <<>>
         THEN fm(p, "nothing", PyNone, <<>>, <<>>, hc, Returned(p, r))
         ELSE [out |-> Raise("IncorrectPluginArg"), log |-> Returned(p, r)]

\* Lines 44-48, with r what result = func() gave: an exception of func()
\* leaves the stage at once.
OnlySelfArg(p, r, hc) ==
    IF IsRaise(r.out) THEN r
    ELSE IF PyIs(r.out.val, PyNone)
         THEN fm(p, "nothing", PyNone, <<>>, <<>>, hc, Returned(p, r))
         ELSE [out |-> Raise("IncorrectPluginArg"), log |-> Returned(p, r)]

\* Line 50 with func() inside try/except: the engine swallows the exception
\* of the inner chain and hands the implementation None.
ResultArg_suppressing(p, r, hc) ==
    IF IsRaise(r.out) THEN fm(p, "result", PyNone, <<>>, hc.args, hc, r.log)
    ELSE fm(p, "result", r.out.val, <<>>, hc.args, hc, Returned(p, r))

\* Line 50 for a second parameter not named '__', with r what func() gave.
ResultArg(p, r, hc) ==
    IF IsRaise(r.out) THEN r
    ELSE fm(p, "result", r.out.val, <<>>, hc.args, hc, Returned(p, r))

\* The stage without the test for '__' of line 50: func() is evaluated for
\* every implementation with a second parameter.
chain_inner_method_eager(p, func, hc, log) ==
    IF Len(hc.self.classes[p].fargs) = 1
    THEN OnlySelfArg(p, CallFunc(func, hc, Append(Append(log, Event("stage", p, "", <<>>)),
                                                  Event("eager", p, "", <<>>))), hc)
    ELSE ResultArg(p, CallFunc(func, hc, Append(Append(log, Event("stage", p, "", <<>>)),
                                                Event("eager", p, "", <<>>))), hc)

\* A continuation-mode stage that runs the inner chain itself before it hands
\* the continuation to the implementation, r being what that run gave.
AfterPrefetch(p, func, hc, r) ==
    IF IsRaise(r.out) THEN r
    ELSE fm(p, "continuation", PyNone, func, hc.args, hc, r.log)

chain_inner_method_prefetch(p, func, hc, log) ==
    IF Len(hc.self.classes[p].fargs) = 1
    THEN OnlySelfArg(p, CallFunc(func, hc, Append(Append(log, Event("stage", p, "", <<>>)),
                                                  Event("eager", p, "", <<>>))), hc)
    ELSE IF hc.self.classes[p].fargs[2] = "__"
         THEN AfterPrefetch(p, func, hc,
                            CallFunc(func, hc, Append(Append(log, Event("stage", p, "", <<>>)),
                                                      Event("eager", p, "", <<>>))))
         ELSE ResultArg(p, CallFunc(func, hc, Append(Append(log, Event("stage", p, "", <<>>)),
                                                     Event("eager", p, "", <<>>))), hc)

chain_inner_method(p, func, hc, log) ==
    LET fargs == hc.self.classes[p].fargs
        log0 == Append(log, Event("stage", p, "", <<>>))
    IN  IF Len(fargs) = 1
        THEN OnlySelfArg(p, CallFunc(func, hc, Append(log0, Event("eager", p, "", <<>>))), hc)
        ELSE IF fargs[2] = "__"
             THEN fm(p, "continuation", PyNone, func, hc.args, hc, log0)
             ELSE ResultArg(p, CallFunc(func, hc, Append(log0, Event("eager", p, "", <<>>))), hc)

\* The rest of CommAdminView.get_context once r, what the call of the
\* inherited get_context gave, is there: its exception passes through;
\* otherwise nav_menu and site_title are set in the context and it is
\* returned.
SetSiteTitle(o) == IF IsRaise(o) THEN o ELSE SetItem(o.val, "site_title")
AfterSuper(r) ==
    IF IsRaise(r.out) THEN r
    ELSE [out |-> SetSiteTitle(SetItem(r.out.val, "nav_menu")),
          log |-> Append(r.log, Event("super_done", 0, "", <<>>))]

\* The body of the decorated method reaching the inherited method around
\* the decorator: the inherited body runs bare, without the plugin chain.
hook_inner_method_plain_super(hc, log) ==
    IF hc.base.kind = "super"
    THEN AfterSuper([out |-> InheritedBody(hc.base),
                     log |-> Append(Append(Append(log, Event("base", 0, "", hc.args)),
                                           Event("super", 0, "", <<>>)),
                                    Event("base", 0, "", <<>>))])
    ELSE [out |-> hc.base, log |-> Append(log, Event("base", 0, "", hc.args))]

\* filter_hook.method._inner_method: func(self, *args, **kwargs), the body of
\* the decorated method.  A body that calls the inherited method of the same
\* name invokes that hook on the same host, without arguments.
hook_inner_method(hc, log) ==
    IF hc.base.kind = "super"
    THEN AfterSuper(filter_hook(hc.self, <<>>, InheritedBody(hc.base),
                                Append(Append(log, Event("base", 0, "", hc.args)),
                                       Event("super", 0, "", <<>>))))
    ELSE [out |-> hc.base, log |-> Append(log, Event("base", 0, "", hc.args))]

\* Closures with a guard against a second invocation: when the plugin that
\* invokes the closure has invoked its continuation before in this hook
\* invocation, the call is refused as a violation of the plugin contract.
CallFunc_guarded(func, hc, log) ==
    IF /\ log # <<>>
       /\ log[Len(log)].ev = "cont"
       /\ Cardinality({i \in 1..Len(log) :
                          log[i].ev = "cont" /\ log[i].p = log[Len(log)].p}) >= 2
    THEN [out |-> Raise("IncorrectPluginArg"), log |-> log]
    ELSE IF func = <<>> THEN hook_inner_method(hc, log)
         ELSE chain_inner_method(Head(func), Tail(func), hc, log)

\* Calling a closure: the empty closure is the hook's _inner_method, any other
\* is the stage of its first plugin around the rest.
CallFunc(func, hc, log) ==
    IF func = <<>> THEN hook_inner_method(hc, log)
    ELSE chain_inner_method(Head(func), Tail(func), hc, log)

\* An argument of a hook invocation is a token: "model" is positional,
\* "commit=False" is the keyword argument commit.  The name of a keyword
\* argument, "" for a positional one.
KeywordName(a) ==
    CASE a = "commit=False" -> "commit"
      [] a = "func=False" -> "func"
      [] a = "token=False" -> "token"
      [] a = "filters=False" -> "filters"
      [] OTHER -> ""

\* The parameters of filter_chain ahead of *args and **kwargs.
ChainParams == {"filters", "token", "func"}

\* A keyword argument of the hook is named like a parameter of filter_chain.
Clashes(args) == \E i \in 1..Len(args) : KeywordName(args[i]) \in ChainParams

\* filter_chain nesting the wrong way round: each stage is put inside the
\* closure built so far, so that filters[0] ends up next to the base method.
RECURSIVE filter_chain_inside_out(_, _, _, _, _)
filter_chain_inside_out(filters, token, func, hc, log) ==
    IF token = -1 THEN CallFunc(func, hc, log)
    ELSE filter_chain_inside_out(filters, token - 1, func \o <<filters[token + 1]>>, hc, log)

RECURSIVE filter_chain(_, _, _, _, _)
\* filter_chain(filters, token, func, *args, **kwargs); token counts from 0 as
\* in the source, filters from 1.  The keyword arguments of the hook come
\* next to the three parameters: one named like a parameter is a TypeError
\* (multiple values for the argument) at the call, before anything runs.
filter_chain(filters, token, func, hc, log) ==
    IF Clashes(hc.args) THEN [out |-> Raise("TypeError"), log |-> log]
    ELSE IF token = -1 THEN CallFunc(func, hc, log)
    ELSE filter_chain(filters, token - 1, <<filters[token + 1]>> \o func, hc, log)

\* A missing priority read as 0: getattr(getattr(p, tag), 'priority', 0).
PriorityOf_default_zero(cls) == IF cls.hasprio THEN cls.prio ELSE 0

\* getattr(getattr(p, tag), 'priority', 10)
PriorityOf(cls) == IF cls.hasprio THEN cls.prio ELSE DefaultPriority

\* callable(getattr(p, tag, None))
Implements(cls) == cls.attr = "callable"

\* [p for p in plugins if callable(getattr(p, tag, None))]
Matching(classes, plugins) ==
    SelectSeq(plugins, LAMBDA p : Implements(classes[p]))

\* The sort with reverse=True: the larger priority number first.
RECURSIVE InsertByPriority_descending(_, _, _)
InsertByPriority_descending(classes, x, s) ==
    IF s = <<>> THEN <<x>>
    ELSE IF PriorityOf(classes[Head(s)]) >= PriorityOf(classes[x])
         THEN <<Head(s)>> \o InsertByPriority_descending(classes, x, Tail(s))
         ELSE <<x>> \o s

\* An unstable sort: x goes before the elements of its own priority.
RECURSIVE InsertByPriority_unstable(_, _, _)
InsertByPriority_unstable(classes, x, s) ==
    IF s = <<>> THEN <<x>>
    ELSE IF PriorityOf(classes[Head(s)]) < PriorityOf(classes[x])
         THEN <<Head(s)>> \o InsertByPriority_unstable(classes, x, Tail(s))
         ELSE <<x>> \o s

\* One step of the stable sort: x goes after every element whose priority is
\* not larger than its own.
RECURSIVE InsertByPriority(_, _, _)
InsertByPriority(classes, x, s) ==
    IF s = <<>> THEN <<x>>
    ELSE IF PriorityOf(classes[Head(s)]) <= PriorityOf(classes[x])
         THEN <<Head(s)>> \o InsertByPriority(classes, x, Tail(s))
         ELSE <<x>> \o s

RECURSIVE SortedByPriority(_, _)
\* sorted(filters, key=lambda x: x[0]): stable, ascending.
SortedByPriority(classes, s) ==
    IF s = <<>> THEN <<>>
    ELSE InsertByPriority(classes, s[Len(s)],
                          SortedByPriority(classes, SubSeq(s, 1, Len(s) - 1)))

\* The list `filters` of filter_hook.method, as plugin instances.
Filters(self) == SortedByPriority(self.classes, Matching(self.classes, self.plugins))

\* filter_hook.method with the return of line 68 forgotten: the fast path runs
\* the decorated method and gives None.
filter_hook_no_return(self, args, base, log) ==
    IF "plugins" \notin self.attrs
    THEN [out |-> Raise("AttributeError"), log |-> log]
    ELSE IF self.plugins # <<>>
         THEN filter_chain(Filters(self), Len(Filters(self)) - 1, <<>>,
                           HookCall(self, args, base), log)
         ELSE [out |-> IF IsRaise(base) THEN base ELSE Ret(PyNone),
               log |-> hook_inner_method(HookCall(self, args, base), log).log]

\* filter_hook.method(self, *args, **kwargs).  self is [classes, attrs,
\* plugins]: reading self.plugins before it was assigned is an AttributeError.
filter_hook(self, args, base, log) ==
    LET hc == HookCall(self, args, base)
    IN  IF "plugins" \notin self.attrs
        THEN [out |-> Raise("AttributeError"), log |-> log]
        ELSE IF self.plugins # <<>>
             THEN filter_chain(Filters(self), Len(Filters(self)) - 1, <<>>, hc, log)
             ELSE hook_inner_method(hc, log)

(***************************************************************************)
(* Host construction: BaseAdminView.__init__ and init_plugin.              *)
(***************************************************************************)

\* What a plugin's constructor or init_request passes to the hook when it
\* calls one on its admin_view, and what the decorated method would return.
ProbeArgs == <<>>
ProbeBase == Ret(PyDict(<<"admin_view", "media">>))

\* A body that calls the hook (r is what the call gave), lets its exception
\* pass and otherwise returns x.
Returning(x, r) == IF IsRaise(r.out) THEN r ELSE [out |-> Ret(x), log |-> r.log]

\* A body that calls the hook inside try/except and returns x either way.
Swallowing(x, r) == [out |-> Ret(x), log |-> r.log]

\* p(self): the constructor of plugin class number i, given the host so far.
\* BaseAdminPlugin.__init__ stores admin_view; a subclass may raise, or call a
\* hook-decorated method of admin_view and let its exception pass.
PluginCtor(self, i, log) ==
    LET cls == self.classes[i]
        log1 == Append(log, Event("ctor", i, "", <<>>))
    IN  CASE cls.ctor = "raise" -> [out |-> Raise("PluginError"), log |-> log1]
          [] cls.ctor = "call_hook" ->
                Returning(PyNone, filter_hook(self, ProbeArgs, ProbeBase,
                                              Append(log1, Event("probe", i, "", <<>>))))
          [] cls.ctor = "try_hook" ->
                Swallowing(PyNone, filter_hook(self, ProbeArgs, ProbeBase,
                                               Append(log1, Event("probe", i, "", <<>>))))
          [] OTHER -> [out |-> Ret(PyNone), log |-> log1]

\* p.init_request(*args, **kwargs) of plugin instance p.
PluginInitRequest(self, p, log) ==
    LET cls == self.classes[p]
        log1 == Append(log, Event("init_request", p, "", <<>>))
    IN  CASE cls.init = "raise" -> [out |-> Raise("PluginError"), log |-> log1]
          [] cls.init = "call_hook" ->
                Returning(cls.initval, filter_hook(self, ProbeArgs, ProbeBase,
                                                   Append(log1, Event("probe", p, "", <<>>))))
          [] cls.init = "try_hook" ->
                Swallowing(cls.initval, filter_hook(self, ProbeArgs, ProbeBase,
                                                    Append(log1, Event("probe", p, "", <<>>))))
          [] OTHER -> [out |-> Ret(cls.initval), log |-> log1]

RECURSIVE Instantiate(_, _, _, _)
\* One element of the list comprehension, r being what the constructor of
\* class number i gave: its exception ends the comprehension.
InstantiateStep(self, i, acc, r) ==
    IF IsRaise(r.out) THEN [out |-> r.out, list |-> acc, log |-> r.log]
    ELSE Instantiate(self, i + 1, Append(acc, i), r.log)

\* [p(self) for p in getattr(self, "plugin_classes", [])], from class number i
\* on, acc being the instances built so far.
Instantiate(self, i, acc, log) ==
    IF i > Len(self.classes) THEN [out |-> Ret(PyNone), list |-> acc, log |-> log]
    ELSE InstantiateStep(self, i, acc, PluginCtor(self, i, log))

\* The test written against None: if result is not None.
Included_not_none(result) == ~PyIs(result, PyNone)

\* The test written with equality: if result != False.
Included_not_equal(result) == ~PyEq(result, PyFalse)

\* if result is not False: plugins.append(p)
Included(result) == ~PyIs(result, PyFalse)

RECURSIVE InitPluginLoop(_, _, _, _)
\* One turn of the loop, r being what p.init_request gave: its exception ends
\* the loop, and its result decides whether p joins the local list plugins.
InitPluginStep(self, i, plugins, r) ==
    IF IsRaise(r.out) THEN [out |-> r.out, list |-> plugins, log |-> r.log]
    ELSE InitPluginLoop(self, i + 1,
                        IF Included(r.out.val)
                        THEN Append(plugins, self.base_plugins[i]) ELSE plugins,
                        r.log)

\* The for loop of init_plugin from position i of self.base_plugins on, with
\* the local list plugins.
InitPluginLoop(self, i, plugins, log) ==
    IF i > Len(self.base_plugins) THEN [out |-> Ret(PyNone), list |-> plugins, log |-> log]
    ELSE InitPluginStep(self, i, plugins, PluginInitRequest(self, self.base_plugins[i], log))

\* init_plugin filling self.plugins in place (self.plugins = [] before the
\* loop): a raising init_request leaves the plugins accepted so far on the host.
AssignPlugins_in_place(self, r) ==
    [out |-> r.out,
     self |-> [self EXCEPT !.plugins = r.list, !.attrs = @ \cup {"plugins"}],
     log |-> IF IsRaise(r.out) THEN r.log
             ELSE Append(r.log, Event("init_plugin_done", 0, "", <<>>))]

\* self.plugins = plugins, reached when the loop r ended without an exception.
AssignPlugins(self, r) ==
    IF IsRaise(r.out) THEN [out |-> r.out, self |-> self, log |-> r.log]
    ELSE [out |-> Ret(PyNone),
          self |-> [self EXCEPT !.plugins = r.list, !.attrs = @ \cup {"plugins"}],
          log |-> Append(r.log, Event("init_plugin_done", 0, "", <<>>))]

\* BaseAdminView.init_plugin(self, *args, **kwargs): the host after it, and
\* its outcome.
init_plugin(self, log) ==
    AssignPlugins(self, InitPluginLoop(self, 1, <<>>,
                                       Append(log, Event("init_plugin", 0, "", <<>>))))

\* BaseAdminView.init_request(self, *args, **kwargs): pass.
host_init_request(self, log) ==
    [out |-> Ret(PyNone), self |-> self, log |-> Append(log, Event("host_init_request", 0, "", <<>>))]

\* BaseAdminView.__init__(self, request, *args, **kwargs) on a host type with
\* the plugin classes `classes`.
\* Line 275, reached when init_plugin (r) raised nothing.
AfterInitPlugin(r) ==
    IF IsRaise(r.out) THEN r ELSE host_init_request(r.self, r.log)

\* Lines 270-275, r being what the list comprehension of line 270 gave.
AfterInstantiate(self, r) ==
    IF IsRaise(r.out) THEN [out |-> r.out, self |-> self, log |-> r.log]
    ELSE AfterInitPlugin(
            init_plugin([self EXCEPT !.base_plugins = r.list,
                                     !.attrs = @ \cup {"base_plugins", "args", "kwargs"}],
                        r.log))

\* A host type with a class attribute plugins = []: self.plugins reads as the
\* empty list before init_plugin assigns it.
NewHost_class_attribute(classes) ==
    [classes |-> classes, attrs |-> {"request", "request_method", "user", "plugins"},
     base_plugins |-> <<>>, plugins |-> <<>>]

\* The host when __init__ reaches line 270.
NewHost(classes) ==
    [classes |-> classes, attrs |-> {"request", "request_method", "user"},
     base_plugins |-> <<>>, plugins |-> <<>>]

host_init(classes) ==
    AfterInstantiate(NewHost(classes), Instantiate(NewHost(classes), 1, <<>>, <<>>))

\* What ModelAdminView.__init__ assigns before it calls the inherited
\* __init__: self.opts, self.app_label, self.module_name, self.model_info.
ModelInfoAttrs == {"opts", "app_label", "module_name", "model_info"}

\* The construction r of a host that holds the attributes A already.
WithAttrs(r, A) == [r EXCEPT !.self.attrs = @ \cup A]

\* ModelAdminView.__init__(self, request, *args, **kwargs) on a class whose
\* attribute model is m: self.model._meta raises AttributeError on None, the
\* class default, before anything is assigned; with a model the four
\* attributes are assigned and BaseAdminView.__init__ runs.
model_view_init(m, classes) ==
    IF m = "None"
    THEN [out |-> Raise("AttributeError"),
          self |-> [classes |-> classes, attrs |-> {}, base_plugins |-> <<>>,
                    plugins |-> <<>>],
          log |-> <<>>]
    ELSE WithAttrs(host_init(classes), ModelInfoAttrs)

\* cls(request, *args, **kwargs) for the view class cls.
view_init(cls, m, classes) ==
    IF cls = "ModelAdminView" THEN model_view_init(m, classes) ELSE host_init(classes)

(***************************************************************************)
(* State.                                                                  *)
(***************************************************************************)
VARIABLES
    plugin_classes,  \* the plugin classes configured on the host type
    view_class,      \* the view class: "BaseAdminView" or "ModelAdminView"
    model,           \* its class attribute model: "None", "Model", or "unset"
                     \* on a class that has no such attribute
    handlers,        \* the handler methods the view class defines ("get", "head", ...)
    phase,           \* "new", "constructed" (__init__ returned), "ready"
                     \* (as_view's view reached the handler) or "failed"
                     \* (__init__ raised)
    attrs,           \* the names of the host's assigned attributes
    base_plugins,    \* self.base_plugins: the plugin instances, by class number
    plugins,         \* self.plugins: the active list
    init_out,        \* the outcome of __init__
    init_log,        \* what happened during __init__
    last             \* the latest hook invocation: args, base, outcome, log, filters

vars == <<plugin_classes, view_class, model, handlers, phase, attrs, base_plugins, plugins, init_out,
         init_log, last>>

\* Arguments a hook is invoked with: none, one positional argument, and a
\* positional argument with a keyword argument named like a parameter of
\* filter_chain.
ArgLists == {<<>>, <<"model">>, <<"model", "func=False">>}

\* What the body of the decorated method does: return None (message_user),
\* a dict (get_context), 0, or raise.
BaseOutcomes ==
    {Ret(PyNone), Ret(PyDict(<<"admin_view", "media">>)), Ret(PyZero), Raise("BaseError")}

NoCall == [called |-> FALSE, args |-> <<>>, base |-> Ret(PyNone), out |-> Ret(PyNone),
           log |-> <<>>, filters |-> <<>>]

\* A hook implementation as the attribute part of a plugin class.
Impl(attr, fargs, body, hasprio, prio) ==
    [attr |-> attr, fargs |-> fargs, body |-> body, hasprio |-> hasprio, prio |-> prio]
WithImpl(ctor, init, initval, m) ==
    PluginClass(ctor, init, initval, m.attr, m.fargs, m.body, m.hasprio, m.prio)

ObserverArgs == <<"self">>
ContinuationArgs == <<"self", "__">>
ResultArgs == <<"self", "context">>

\* Plugin classes that differ in their constructor and init_request; each
\* defines a result-mode implementation of the hook with no priority.
LifeClasses ==
    LET m == Impl("callable", ResultArgs, "add", FALSE, 0)
    IN  {WithImpl("raise", "return", PyNone, m), WithImpl("call_hook", "return", PyNone, m),
         WithImpl("try_hook", "return", PyNone, m),
         WithImpl("ok", "raise", PyNone, m), WithImpl("ok", "call_hook", PyNone, m),
         WithImpl("ok", "try_hook", PyNone, m)}
        \cup {WithImpl("ok", "return", x, m) :
                x \in {PyNone, PyFalse, PyTrue, PyZero, PyEmptyStr}}

\* Plugin classes that are always active and differ in their implementation.
ImplClasses(impls) == {WithImpl("ok", "return", PyNone, m) : m \in impls}

ChainImpls ==
    {Impl("absent", <<>>, "none", FALSE, 0), Impl("noncallable", <<>>, "none", FALSE, 0)}
    \cup {Impl("callable", ObserverArgs, "none", FALSE, 0)}
    \cup {Impl("callable", f[1], f[2], pr[1], pr[2]) :
            f \in {<<ObserverArgs, "value">>,
                   <<ContinuationArgs, "add">>, <<ContinuationArgs, "value">>,
                   <<ResultArgs, "add">>},
            pr \in {<<FALSE, 0>>, <<TRUE, 5>>}}

OrderImpls ==
    {Impl("absent", <<>>, "none", FALSE, 0)}
    \cup {Impl("callable", f, "add", pr[1], pr[2]) :
            f \in {ContinuationArgs, ResultArgs},
            pr \in {<<FALSE, 0>>, <<TRUE, 5>>, <<TRUE, 10>>, <<TRUE, 20>>}}

\* The sequences of at most MaxPlugins plugin classes from a set.
ClassLists(S) == UNION {[1..n -> S] : n \in 0..MaxPlugins}

\* View classes by the handlers they define: get only, post only, get and a
\* head of their own.
HandlerSets == {{"get"}, {"post"}, {"get", "head"}}

\* A view class: its name, its attribute model and the handlers it defines.
HostType(cls, m, h) == [view |-> cls, model |-> m, handlers |-> h]

\* BaseAdminView subclasses with each set of handlers, and ModelAdminView
\* subclasses with a model and with the default model = None.
HostTypes ==
    {HostType("BaseAdminView", "unset", h) : h \in HandlerSets}
    \cup {HostType("ModelAdminView", m, {"get"}) : m \in {"None", "Model"}}

InitHost(S, T) ==
    /\ plugin_classes \in ClassLists(S)
    /\ \E t \in T : view_class = t.view /\ model = t.model /\ handlers = t.handlers
    /\ phase = "new"
    /\ attrs = {}
    /\ base_plugins = <<>>
    /\ plugins = <<>>
    /\ init_out = Ret(PyNone)
    /\ init_log = <<>>
    /\ last = NoCall

\* A BaseAdminView subclass with a get handler and no head of its own.
InitWith(S) == InitHost(S, {HostType("BaseAdminView", "unset", {"get"})})

Init == InitHost(LifeClasses, HostTypes)
InitChain == InitWith(ImplClasses(ChainImpls))
InitOrder == InitWith(ImplClasses(OrderImpls))

\* The host as the record the operators work on.
Self == [classes |-> plugin_classes, attrs |-> attrs,
         base_plugins |-> base_plugins, plugins |-> plugins]

\* The state once __init__ ended as r says.
Constructed(r) ==
    /\ phase' = IF IsRaise(r.out) THEN "failed" ELSE "constructed"
    /\ attrs' = r.self.attrs
    /\ base_plugins' = r.self.base_plugins
    /\ plugins' = r.self.plugins
    /\ init_out' = r.out
    /\ init_log' = r.log

\* The record of a hook invocation that ended as r says.
Invoked(args, base, r) ==
    last' = [called |-> TRUE, args |-> args, base |-> base, out |-> r.out, log |-> r.log,
             filters |-> IF plugins # <<>> THEN Filters(Self) ELSE <<>>]

\* cls(request, *args, **kwargs): the host is constructed.
Construct ==
    /\ phase = "new"
    /\ Constructed(view_init(view_class, model, plugin_classes))
    /\ UNCHANGED <<plugin_classes, view_class, model, handlers, last>>

\* as_view's view, right after the construction and before the handler:
\* if hasattr(self, 'get') and not hasattr(self, 'head'): self.head = self.get
\* Nothing runs on the host between its construction and this statement.
SetHead ==
    /\ phase = "constructed"
    /\ ~last.called
    /\ attrs' = IF "get" \in handlers /\ "head" \notin (handlers \cup attrs)
                THEN attrs \cup {"head"} ELSE attrs
    /\ phase' = "ready"
    /\ UNCHANGED <<plugin_classes, view_class, model, handlers, base_plugins, plugins,
                   init_out, init_log, last>>

\* The caller invokes the hook-decorated method on a constructed host: the
\* handler of as_view's view does, and so does whoever holds a host built by
\* the class alone (BaseAdminObject.get_view), on which head was never set.
Invoke(args, base) ==
    /\ phase \in {"constructed", "ready"}
    /\ Invoked(args, base, filter_hook(Self, args, base, <<>>))
    /\ UNCHANGED <<plugin_classes, view_class, model, handlers, phase, attrs, base_plugins, plugins, init_out,
                   init_log>>

\* What the decorated method does on the hosts of the lifecycle: return
\* None, or a dict.
LifeOutcomes == {Ret(PyNone), Ret(PyDict(<<"admin_view", "media">>))}

Next ==
    \/ Construct
    \/ SetHead
    \/ \E args \in ArgLists, base \in LifeOutcomes : Invoke(args, base)

NextChain ==
    \/ Construct
    \/ SetHead
    \/ \E args \in ArgLists, base \in BaseOutcomes : Invoke(args, base)

Spec == Init /\ [][Next]_vars
SpecChain == InitChain /\ [][NextChain]_vars
SpecOrder == InitOrder /\ [][NextChain]_vars

(***************************************************************************)
(* Hosts whose plugins raise, or catch what the rest of the chain raises.  *)
(***************************************************************************)
FailImpls ==
    {Impl("callable", f[1], f[2], FALSE, 0) :
        f \in {<<ObserverArgs, "none">>, <<ObserverArgs, "raise">>,
               <<ContinuationArgs, "pass">>, <<ContinuationArgs, "catch">>,
               <<ContinuationArgs, "raise">>, <<ContinuationArgs, "value">>,
               <<ResultArgs, "pass">>, <<ResultArgs, "raise">>}}

\* The decorated method returns None, a dict or 0, or raises.
FailOutcomes ==
    {Ret(PyNone), Ret(PyDict(<<"admin_view", "media">>)), Ret(PyZero), Raise("BaseError")}

InitFail == InitWith(ImplClasses(FailImpls))

NextFail ==
    \/ Construct
    \/ SetHead
    \/ \E args \in ArgLists, base \in FailOutcomes : Invoke(args, base)

SpecFail == InitFail /\ [][NextFail]_vars

(***************************************************************************)
(* Hosts whose continuation-mode plugins call their continuation once,     *)
(* twice, with arguments of their own, or not at all.                      *)
(***************************************************************************)
ContImpls ==
    {Impl("callable", f[1], f[2], FALSE, 0) :
        f \in {<<ContinuationArgs, "add">>, <<ContinuationArgs, "twice">>,
               <<ContinuationArgs, "rearg">>, <<ContinuationArgs, "value">>,
               <<ResultArgs, "add">>, <<ObserverArgs, "none">>}}

\* Positional arguments, one passed by keyword, and a keyword argument named
\* like a parameter of filter_chain.
ContArgLists == {<<>>, <<"model">>, <<"model", "commit=False">>, <<"token=False">>}

ContOutcomes == {Ret(PyNone), Ret(PyDict(<<"admin_view", "media">>)), Raise("BaseError")}

InitCont == InitWith(ImplClasses(ContImpls))

NextCont ==
    \/ Construct
    \/ SetHead
    \/ \E args \in ContArgLists, base \in ContOutcomes : Invoke(args, base)

SpecCont == InitCont /\ [][NextCont]_vars

(***************************************************************************)
(* Hosts with observer-mode plugins, on base methods that return None,     *)
(* empty or falsy values, or a dict.                                       *)
(***************************************************************************)
ObsImpls ==
    {Impl("callable", f[1], f[2], FALSE, 0) :
        f \in {<<ObserverArgs, "none">>, <<ObserverArgs, "value">>,
               <<ContinuationArgs, "pass">>, <<ContinuationArgs, "value">>,
               <<ResultArgs, "pass">>, <<ResultArgs, "add">>}}

\* The values that are present but empty or falsy.
FalsyValues == {PyDict(<<>>), PyList(<<>>), PyEmptyStr, PyZero, PyFalse}

ObsOutcomes ==
    {Ret(x) : x \in FalsyValues}
    \cup {Ret(PyNone), Ret(PyDict(<<"admin_view", "media">>)), Raise("BaseError")}

InitObs == InitWith(ImplClasses(ObsImpls))

NextObs ==
    \/ Construct
    \/ SetHead
    \/ \E args \in ArgLists, base \in ObsOutcomes : Invoke(args, base)

SpecObs == InitObs /\ [][NextObs]_vars

(***************************************************************************)
(* Hosts whose decorated method calls the inherited decorated method of    *)
(* the same name (CommAdminView.get_context), next to hosts whose method   *)
(* does not (BaseAdminView.get_context).                                   *)
(***************************************************************************)
NestedImpls ==
    {Impl("absent", <<>>, "none", FALSE, 0),
     Impl("callable", ObserverArgs, "none", FALSE, 0),
     Impl("callable", ContinuationArgs, "value", FALSE, 0)}
    \cup {Impl("callable", f, "add", pr[1], pr[2]) :
            f \in {ContinuationArgs, ResultArgs},
            pr \in {<<FALSE, 0>>, <<TRUE, 5>>}}

\* get_context takes no argument: def get_context(self).
NestedArgLists == {<<>>}

NestedOutcomes ==
    {Super(Ret(PyDict(<<"admin_view", "media">>))), Super(Ret(PyNone)),
     Super(Raise("BaseError")), Ret(PyDict(<<"admin_view", "media">>))}

InitNested == InitWith(ImplClasses(NestedImpls))

NextNested ==
    \/ Construct
    \/ SetHead
    \/ \E args \in NestedArgLists, base \in NestedOutcomes : Invoke(args, base)

SpecNested == InitNested /\ [][NextNested]_vars

(***************************************************************************)
(* Vocabulary of the properties.                                           *)
(***************************************************************************)
Range(s) == {s[i] : i \in 1..Len(s)}
Pos(s, x) == CHOOSE i \in 1..Len(s) : s[i] = x

\* The positions of the log entries of one kind, and of one kind and plugin.
At(log, ev) == {i \in 1..Len(log) : log[i].ev = ev}
AtOf(log, ev, p) == {i \in 1..Len(log) : log[i].ev = ev /\ log[i].p = p}

\* The construction of the host succeeded.
Built == phase \in {"constructed", "ready"}

\* The active plugins exposing a callable attribute with the hook's name.
Implementers == {p \in Range(plugins) : plugin_classes[p].attr = "callable"}

\* The calling mode an implementation declares.
IsObserver(p) == Len(plugin_classes[p].fargs) = 1
IsContinuation(p) == Len(plugin_classes[p].fargs) >= 2 /\ plugin_classes[p].fargs[2] = "__"
IsResult(p) == Len(plugin_classes[p].fargs) >= 2 /\ plugin_classes[p].fargs[2] # "__"

\* The priority the documentation gives an implementation: its priority
\* attribute, 10 without one.
StatedPriority(p) == IF plugin_classes[p].hasprio THEN plugin_classes[p].prio ELSE 10

\* p is placed ahead of q: the smaller priority number first, the attachment
\* order between equals.
Ahead(p, q) ==
    \/ StatedPriority(p) < StatedPriority(q)
    \/ StatedPriority(p) = StatedPriority(q) /\ Pos(plugins, p) < Pos(plugins, q)

(***************************************************************************)
(* C1  Identity: when no active plugin exposes a callable attribute with   *)
(* the hook's name (the active list is empty, or holds plugins none of     *)
(* which implements the hook), the hook invocation runs the base method    *)
(* exactly once, with the original arguments, and nothing else, and its    *)
(* outcome is the base method's outcome (value or exception).              *)
(***************************************************************************)
C1_Identity ==
    (last.called /\ Implementers = {}) =>
        /\ last.out = last.base
        /\ last.log = <<Event("base", 0, "", last.args)>>

\* A hook was invoked with an argument on a host whose active plugins, one of
\* them with a non-callable attribute of the hook's name, implement nothing.
C1_Witness ==
    /\ last.called
    /\ Implementers = {}
    /\ Len(plugins) >= 2
    /\ \E p \in Range(plugins) : plugin_classes[p].attr = "noncallable"
    /\ last.args = <<"model">>
    /\ last.base = Ret(PyDict(<<"admin_view", "media">>))
    /\ last.out = last.base

(***************************************************************************)
(* C2  Ordering: when the implementers of the hook are continuation-mode   *)
(* plugins with pairwise distinct priorities, attached in any order, the   *)
(* first thing to run is the implementation with the smallest priority,    *)
(* entered before the engine evaluated anything, with the continuation; each *)
(* invocation of a continuation is followed at once by the entry of the    *)
(* implementation with the next larger priority, or by the base method     *)
(* (with the original arguments) after the largest; and no implementation  *)
(* is entered before every one with a smaller priority invoked its         *)
(* continuation.                                                           *)
(***************************************************************************)
AllContinuation ==
    /\ Implementers # {}
    /\ \A p \in Implementers : IsContinuation(p) /\ plugin_classes[p].body = "add"

DistinctPriorities ==
    \A p, q \in Implementers : p # q => StatedPriority(p) # StatedPriority(q)

\* The implementers with a larger priority number than p.
Larger(p) == {q \in Implementers : StatedPriority(q) > StatedPriority(p)}

\* The log from position i on shows plugin q's stage starting and its
\* implementation entered with the continuation and the arguments a.
EntersAt(log, i, q, a) ==
    /\ i + 1 <= Len(log)
    /\ log[i] = Event("stage", q, "", <<>>)
    /\ log[i + 1] = Event("call", q, "continuation", a)

\* C2: the ordering of a chain of continuation-mode plugins with distinct
\* priorities, as described above.
C2_Ordering ==
    (last.called /\ AllContinuation /\ DistinctPriorities) =>
        LET log == last.log
            lowest == CHOOSE p \in Implementers :
                        \A q \in Implementers : StatedPriority(p) <= StatedPriority(q)
        IN  /\ log # <<>> => EntersAt(log, 1, lowest, last.args)
            /\ At(log, "eager") = {}
            /\ \A p \in Implementers : \A i \in AtOf(log, "cont", p) :
                 IF Larger(p) = {}
                 THEN i + 1 <= Len(log) /\ log[i + 1] = Event("base", 0, "", last.args)
                 ELSE LET next == CHOOSE q \in Larger(p) :
                                    \A r \in Larger(p) : StatedPriority(q) <= StatedPriority(r)
                      IN  EntersAt(log, i + 1, next, last.args)
            /\ \A p, q \in Implementers :
                 StatedPriority(p) < StatedPriority(q) =>
                    \A j \in AtOf(log, "call", q) : \E i \in AtOf(log, "cont", p) : i < j

\* Three continuation-mode plugins with priorities 20, 5 and 10 (the last by
\* default), attached in that order, ran down to the base method.
C2_Witness ==
    /\ last.called /\ AllContinuation /\ DistinctPriorities
    /\ Len(plugins) = 3 /\ Implementers = {1, 2, 3}
    /\ StatedPriority(1) = 20 /\ StatedPriority(2) = 5 /\ StatedPriority(3) = 10
    /\ ~plugin_classes[3].hasprio
    /\ At(last.log, "base") # {}
    /\ last.base = Ret(PyDict(<<"admin_view", "media">>))

(***************************************************************************)
(* C3  Execution order.  As claimed: in every hook invocation with an      *)
(* implementing plugin, whatever its calling mode, the implementation with *)
(* the lowest priority number starts executing before any other plugin     *)
(* implementation and before the base method.  (Stated for a unique lowest *)
(* priority number.)                                                       *)
(***************************************************************************)
UniqueLowest(p) ==
    /\ p \in Implementers
    /\ \A q \in Implementers \ {p} : StatedPriority(p) < StatedPriority(q)

\* C3 as claimed: the implementation with the lowest priority number starts
\* before every other implementation and before the base method.
C3_Original ==
    last.called =>
        \A p \in Implementers :
            UniqueLowest(p) =>
                \A i \in At(last.log, "call") \cup At(last.log, "base") :
                    \/ last.log[i] = Event("call", p, last.log[i].first, last.log[i].a)
                    \/ \E j \in AtOf(last.log, "call", p) : j < i

(***************************************************************************)
(* C3 as amended: the stages start outermost first: whatever runs in a     *)
(* hook invocation, the engine's stage of the implementation placed first  *)
(* (lowest priority number, attachment order between equals) starts before *)
(* it.  When that                                                          *)
(* implementation is continuation-mode it is entered at once, before any   *)
(* other implementation and before the base method, and the rest of the    *)
(* chain runs only after it invoked its continuation.  When it is          *)
(* result-mode or observer-mode the engine first runs the rest of the      *)
(* chain (the next stage, or the base method when there is none), and the  *)
(* implementation, if it is called at all, is the last thing to run.       *)
(***************************************************************************)
Outermost == CHOOSE p \in Implementers : \A q \in Implementers \ {p} : Ahead(p, q)

\* C3 as amended: the outermost stage starts first; its implementation runs
\* first when continuation-mode, last when result-mode or observer-mode.
C3_OutermostFirst ==
    (last.called /\ Implementers # {}) =>
        LET log == last.log
            p == Outermost
        IN  log # <<>> =>
            /\ log[1] = Event("stage", p, "", <<>>)
            /\ IsContinuation(p) =>
                 /\ log[2] = Event("call", p, "continuation", last.args)
                 /\ \A i \in 3..Len(log) : \E j \in AtOf(log, "cont", p) : j <= i
            /\ ~IsContinuation(p) =>
                 /\ log[2] = Event("eager", p, "", <<>>)
                 /\ Len(log) >= 3
                 /\ log[3].ev \in {"stage", "base"} /\ log[3].p # p
                 /\ \A j \in AtOf(log, "call", p) : j = Len(log)

\* A result-mode implementation with the lowest priority number, ahead of
\* another implementer, was called last, after the base method ran.
C3_Witness ==
    /\ last.called
    /\ \E p \in Implementers :
         /\ UniqueLowest(p) /\ IsResult(p) /\ Cardinality(Implementers) >= 2
         /\ AtOf(last.log, "call", p) = {Len(last.log)}
         /\ At(last.log, "base") # {}
         /\ Cardinality(At(last.log, "call")) >= 2

(***************************************************************************)
(* C4  Composition: in a chain of result-mode plugins and continuation-    *)
(* mode plugins that call their continuation once and set their key in    *)
(* its result, on a base method returning a dict, the hook returns         *)
(* f1(f2(...fN(base(args))...)): the base keys followed by one key per     *)
(* implementer, the key of an inner stage (larger priority number) before  *)
(* the key of an outer one; the base method runs exactly once with the     *)
(* original arguments, every implementation runs exactly once, and a       *)
(* continuation-mode implementation is entered before every implementation *)
(* placed after it (Scenario B).                                           *)
(***************************************************************************)
Transformers ==
    /\ Implementers # {}
    /\ \A p \in Implementers :
         plugin_classes[p].body = "add" /\ (IsContinuation(p) \/ IsResult(p))

\* C4: the composition f1(f2(...fN(base(args))...)) of well-behaved stages.
C4_Composition ==
    (last.called /\ Transformers /\ ~IsRaise(last.base) /\ last.base.val.ty = "dict") =>
        LET log == last.log
            b == last.base.val.v
        IN  /\ ~IsRaise(last.out) /\ last.out.val.ty = "dict"
            /\ Len(last.out.val.v) = Len(b) + Cardinality(Implementers)
            /\ SubSeq(last.out.val.v, 1, Len(b)) = b
            /\ \A p \in Implementers : KeyOf(p) \in Range(last.out.val.v)
            /\ \A p, q \in Implementers :
                 Ahead(p, q) => Pos(last.out.val.v, KeyOf(q)) < Pos(last.out.val.v, KeyOf(p))
            /\ Cardinality(At(log, "base")) = 1
            /\ \A i \in At(log, "base") : log[i].a = last.args
            /\ \A p \in Implementers : Cardinality(AtOf(log, "call", p)) = 1
            /\ \A p, q \in Implementers :
                 (Ahead(p, q) /\ IsContinuation(p)) =>
                    \A i \in AtOf(log, "call", p), j \in AtOf(log, "call", q) : i < j

\* Scenario B with the plugins attached in the other order: plugin 1 is P2
\* (priority 20, result-mode), plugin 2 is P1 (priority 5, continuation-mode).
C4_Witness ==
    /\ last.called /\ Transformers
    /\ plugins = <<1, 2>>
    /\ IsResult(1) /\ StatedPriority(1) = 20
    /\ IsContinuation(2) /\ StatedPriority(2) = 5
    /\ last.base = Ret(PyDict(<<"admin_view", "media">>))
    /\ last.out = Ret(PyDict(<<"admin_view", "media", KeyOf(1), KeyOf(2)>>))
    /\ \A i \in AtOf(last.log, "call", 2), j \in AtOf(last.log, "call", 1) : i < j

(***************************************************************************)
(* C5  Observer-mode.  As claimed: whenever the inner computation of the   *)
(* stage of an arity-1 implementation returns a value other than None, the *)
(* stage raises IncorrectPluginArg there and then (nothing runs after it)  *)
(* and the hook invocation raises IncorrectPluginArg; whenever it returns  *)
(* None the implementation is called, with no argument; and a hook         *)
(* invocation raises IncorrectPluginArg only at an observer-mode stage     *)
(* whose inner computation returned a value other than None.               *)
(***************************************************************************)
C5_Original ==
    last.called =>
        LET log == last.log
        IN  /\ \A p \in Implementers : IsObserver(p) =>
                 \A i \in AtOf(log, "result", p) :
                    IF log[i].first # "None"
                    THEN i = Len(log) /\ last.out = Raise("IncorrectPluginArg")
                    ELSE i + 1 <= Len(log) /\ log[i + 1] = Event("call", p, "nothing", <<>>)
            /\ last.out = Raise("IncorrectPluginArg") =>
                 /\ log # <<>>
                 /\ log[Len(log)].ev = "result" /\ log[Len(log)].first # "None"
                 /\ log[Len(log)].p \in Implementers /\ IsObserver(log[Len(log)].p)

(***************************************************************************)
(* C5 as amended: whenever the inner computation of the stage of an        *)
(* arity-1 implementation returns a value other than None, the stage       *)
(* raises IncorrectPluginArg without calling the implementation, and the   *)
(* hook invocation raises IncorrectPluginArg there and then unless a       *)
(* continuation-mode implementation placed ahead of the observer catches   *)
(* it around its call of the continuation, which is the next thing that    *)
(* happens; whenever the inner computation returns None the stage does not *)
(* raise IncorrectPluginArg and the implementation is called, with no      *)
(* argument.  IncorrectPluginArg is raised, and caught, only at an         *)
(* observer-mode stage whose inner computation returned a value other than *)
(* None.                                                                   *)
(***************************************************************************)
\* The log entry after position i is a continuation-mode implementation
\* placed ahead of p catching IncorrectPluginArg inside its continuation.
CaughtAhead(log, i, p) ==
    /\ i < Len(log)
    /\ log[i + 1].ev = "caught" /\ log[i + 1].first = "IncorrectPluginArg"
    /\ IsContinuation(log[i + 1].p)
    /\ Pos(last.filters, log[i + 1].p) < Pos(last.filters, p)
    /\ \E j \in AtOf(log, "cont", log[i + 1].p) : j < i

\* The log entry at position i is the inner computation of an observer-mode
\* stage returning a value other than None.
ObserverGotValue(log, i) ==
    /\ log[i].ev = "result" /\ log[i].first # "None"
    /\ log[i].p \in Implementers /\ IsObserver(log[i].p)

\* C5 as amended: the observer-mode stage raises on a value, and the hook
\* invocation does unless a continuation-mode plugin ahead catches it.
C5_ObserverExclusion ==
    last.called =>
        LET log == last.log
        IN  /\ \A p \in Implementers : IsObserver(p) =>
                 \A i \in AtOf(log, "result", p) :
                    IF log[i].first # "None"
                    THEN \/ i = Len(log) /\ last.out = Raise("IncorrectPluginArg")
                         \/ CaughtAhead(log, i, p)
                    ELSE i + 1 <= Len(log) /\ log[i + 1] = Event("call", p, "nothing", <<>>)
            /\ last.out = Raise("IncorrectPluginArg") =>
                 log # <<>> /\ ObserverGotValue(log, Len(log))
            /\ \A i \in At(log, "caught") :
                 log[i].first = "IncorrectPluginArg" => i > 1 /\ ObserverGotValue(log, i - 1)

\* With the base method returning a dict, the observer-mode stage raised
\* without calling its implementation; the continuation-mode implementation
\* ahead of it caught IncorrectPluginArg and the hook invocation returned.
C5_Witness ==
    /\ last.called
    /\ last.base = Ret(PyDict(<<"admin_view", "media">>))
    /\ Len(last.filters) = 2
    /\ IsContinuation(last.filters[1]) /\ plugin_classes[last.filters[1]].body = "catch"
    /\ IsObserver(last.filters[2])
    /\ Len(last.log) >= 2
    /\ last.log[Len(last.log) - 1] = Event("result", last.filters[2], "dict", <<>>)
    /\ last.log[Len(last.log)] = Event("caught", last.filters[1], "IncorrectPluginArg", <<>>)
    /\ AtOf(last.log, "call", last.filters[2]) = {}
    /\ ~IsRaise(last.out)

(***************************************************************************)
(* C6  Opt-out: a plugin whose init_request returned the boolean False     *)
(* during the construction of the host is not in the host's active list,   *)
(* and no hook invocation on the host builds a stage for it or calls its   *)
(* implementation, although it defines a callable with the hook's name.    *)
(***************************************************************************)
ReturnsFalse(p) ==
    /\ plugin_classes[p].init \in {"return", "try_hook"}
    /\ plugin_classes[p].initval = PyFalse

\* C6: a plugin that returned False is not active and is never run by a hook.
C6_OptOut ==
    phase # "new" =>
        \A p \in 1..Len(plugin_classes) :
            ReturnsFalse(p) =>
                /\ p \notin Range(plugins)
                /\ p \notin Range(last.filters)
                /\ \A i \in 1..Len(last.log) : last.log[i].p # p

\* A hook ran the implementation of an active plugin on a host one of whose
\* instantiated plugins, with a callable of the hook's name, returned False.
C6_Witness ==
    /\ phase = "ready" /\ last.called
    /\ \E p \in Range(base_plugins) :
         ReturnsFalse(p) /\ plugin_classes[p].attr = "callable"
    /\ At(last.log, "call") # {}
    /\ ~IsRaise(last.out)

(***************************************************************************)
(* C7  Inclusion: after the construction of the host there is one plugin   *)
(* instance per configured plugin class, in the configured order, and the  *)
(* active list is exactly the sequence, in that order, of the instances    *)
(* whose init_request returned something other than the boolean False:     *)
(* None, True, and the falsy values 0 and '' count as include.             *)
(***************************************************************************)
C7_Inclusion ==
    Built =>
        /\ base_plugins = [i \in 1..Len(plugin_classes) |-> i]
        /\ plugins = SelectSeq(base_plugins,
                               LAMBDA p : plugin_classes[p].initval # PyFalse)

\* A host whose plugins returned 0, False and '' in that order: the first and
\* the third are active.
C7_Witness ==
    /\ phase = "ready"
    /\ Len(plugin_classes) = 3
    /\ plugin_classes[1].initval = PyZero
    /\ plugin_classes[2].initval = PyFalse
    /\ plugin_classes[3].initval = PyEmptyStr
    /\ plugins = <<1, 3>>

(***************************************************************************)
(* C8  Lifecycle: the opt-in pass (init_plugin) runs at most once per      *)
(* host, and exactly once in a construction that succeeds; nothing of a    *)
(* hook chain (no stage, no plugin implementation, no base method) runs    *)
(* before the pass has finished, also when a plugin's constructor or       *)
(* init_request invokes the hook; a hook is invoked by the caller on a     *)
(* constructed host only; and from then on every step leaves the active    *)
(* list, the plugin instances and the record of the pass as they are.      *)
(***************************************************************************)
ChainEvents == {"stage", "call", "cont", "eager", "result", "base"}

C8_PassFirst ==
    /\ Cardinality(At(init_log, "init_plugin")) <= 1
    /\ Built =>
         /\ Cardinality(At(init_log, "init_plugin")) = 1
         /\ Cardinality(At(init_log, "init_plugin_done")) = 1
         /\ "plugins" \in attrs
    /\ \A i \in 1..Len(init_log) :
         init_log[i].ev \in ChainEvents =>
            \E j \in At(init_log, "init_plugin_done") : j < i
    /\ last.called => Built

C8_Fixed ==
    Built =>
        /\ phase' \in {"constructed", "ready"}
        /\ plugins' = plugins
        /\ base_plugins' = base_plugins
        /\ init_log' = init_log
        /\ attrs \subseteq attrs' /\ attrs' \ attrs \subseteq {"head"}
        /\ phase = "ready" => phase' = "ready" /\ attrs' = attrs

\* C8: the pass comes first, at most once, and its result then stays fixed.
C8_Lifecycle == [](C8_PassFirst) /\ [][C8_Fixed]_vars

\* A host was constructed although one plugin's constructor and another's
\* init_request invoked the hook (inside try/except) during the construction;
\* one plugin opted out, and a hook then ran the chain of the active ones.
C8_Witness ==
    /\ phase = "ready" /\ last.called
    /\ \E i, j \in At(init_log, "probe") :
         /\ init_log[i - 1].ev = "ctor"
         /\ init_log[j - 1].ev = "init_request"
    /\ Len(plugins) = 2 /\ Len(base_plugins) = 3
    /\ Cardinality(At(last.log, "call")) = 2

(***************************************************************************)
(* C9  Stable tie: the chain holds exactly the implementers; of two with   *)
(* equal priority (given, or both or one by default) the one earlier in    *)
(* the active list is placed ahead of the other, and its stage is the      *)
(* outer one: the other's stage starts only after its own did; and the     *)
(* chain order is the same at every further invocation of the hook.        *)
(***************************************************************************)
C9_TieOrder ==
    last.called =>
        LET f == last.filters
        IN  /\ Range(f) = Implementers /\ Len(f) = Cardinality(Implementers)
            /\ \A i, j \in 1..Len(f) :
                 (i < j /\ StatedPriority(f[i]) = StatedPriority(f[j])) =>
                    Pos(plugins, f[i]) < Pos(plugins, f[j])
            /\ \A p, q \in Implementers :
                 (StatedPriority(p) = StatedPriority(q) /\ Pos(plugins, p) < Pos(plugins, q)) =>
                    \A j \in AtOf(last.log, "stage", q) :
                        \E i \in AtOf(last.log, "stage", p) : i < j

C9_SameOrderAgain == (last.called /\ last'.called) => last'.filters = last.filters

\* C9: equal priorities keep the attachment order, at every invocation.
C9_StableTie == [](C9_TieOrder) /\ [][C9_SameOrderAgain]_vars

\* Plugins 1 and 3 have priority 10, the first by default and the third
\* given, and plugin 2 has priority 5: the chain is 2, 1, 3 and all three
\* stages started.
C9_Witness ==
    /\ last.called
    /\ plugins = <<1, 2, 3>> /\ Implementers = {1, 2, 3}
    /\ ~plugin_classes[1].hasprio
    /\ plugin_classes[3].hasprio /\ plugin_classes[3].prio = 10
    /\ StatedPriority(2) = 5
    /\ last.filters = <<2, 1, 3>>
    /\ \E i \in AtOf(last.log, "stage", 1), j \in AtOf(last.log, "stage", 3) : i < j

(***************************************************************************)
(* C10  Fail-fast construction: when a configured plugin's constructor or  *)
(* init_request raises, the construction of the host raises the exception  *)
(* of the first one that raised (the constructors run before every         *)
(* init_request), the host's own init_request is not run, no constructor   *)
(* or init_request after the failing one is run, the host's active list is *)
(* never assigned, and no hook is invoked on the host.  The only other     *)
(* construction that fails is that of a ModelAdminView without a model:    *)
(* it raises AttributeError before any plugin is constructed.              *)
(***************************************************************************)
\* ModelAdminView.__init__ fails on self.model._meta.
Modelless == view_class = "ModelAdminView" /\ model = "None"

CtorRaises(i) == plugin_classes[i].ctor \in {"raise", "call_hook"}
InitRaises(i) == plugin_classes[i].init \in {"raise", "call_hook"}
\* What they raise: their own PluginError, or the AttributeError of the hook
\* they invoked.
CtorException(i) == IF plugin_classes[i].ctor = "raise" THEN "PluginError" ELSE "AttributeError"
InitException(i) == IF plugin_classes[i].init = "raise" THEN "PluginError" ELSE "AttributeError"
MinOf(S) == CHOOSE x \in S : \A y \in S : x <= y

\* C10: a raising plugin constructor or init_request aborts the construction.
C10_FailFast ==
    phase # "new" =>
        LET n == Len(plugin_classes)
            badctor == {i \in 1..n : CtorRaises(i)}
            badinit == {i \in 1..n : InitRaises(i)}
        IN  /\ (phase = "failed") <=> (Modelless \/ badctor \cup badinit # {})
            /\ Modelless =>
                 /\ init_out = Raise("AttributeError")
                 /\ init_log = <<>> /\ attrs = {} /\ plugins = <<>>
                 /\ ~last.called
            /\ (phase = "failed" /\ ~Modelless) =>
                 /\ "plugins" \notin attrs /\ plugins = <<>>
                 /\ At(init_log, "host_init_request") = {}
                 /\ At(init_log, "init_plugin_done") = {}
                 /\ ~last.called
                 /\ IF badctor # {}
                    THEN /\ init_out = Raise(CtorException(MinOf(badctor)))
                         /\ \A j \in 1..n : j > MinOf(badctor) => AtOf(init_log, "ctor", j) = {}
                         /\ At(init_log, "init_request") = {}
                         /\ At(init_log, "init_plugin") = {}
                         /\ "base_plugins" \notin attrs
                    ELSE /\ init_out = Raise(InitException(MinOf(badinit)))
                         /\ \A q \in 1..n :
                              Cardinality(AtOf(init_log, "init_request", q)) =
                                  IF q <= MinOf(badinit) THEN 1 ELSE 0

\* Of three plugins the second one's init_request raised after the first one
\* was accepted: the construction raised its PluginError, and the third one's
\* init_request was not run.
C10_Witness ==
    /\ phase = "failed"
    /\ Len(plugin_classes) = 3
    /\ \A i \in 1..3 : ~CtorRaises(i)
    /\ plugin_classes[1].init = "return" /\ plugin_classes[1].initval = PyTrue
    /\ plugin_classes[2].init = "raise"
    /\ plugin_classes[3].init = "return"
    /\ init_out = Raise("PluginError")
    /\ AtOf(init_log, "init_request", 2) # {}
    /\ AtOf(init_log, "init_request", 3) = {}
    /\ "base_plugins" \in attrs

(***************************************************************************)
(* C11  Cancellation by not delegating: when a continuation-mode           *)
(* implementation returns without invoking its continuation, nothing       *)
(* placed after it runs in that hook invocation: no stage, no              *)
(* implementation and not the base method; what runs after its call are    *)
(* only the enclosing stages, and they receive the value it returned: the  *)
(* nearest enclosing stage that evaluated the inner chain got a dict, and  *)
(* when the implementations placed ahead of it all set their key in what   *)
(* they receive, the caller gets its dict followed by their keys, the      *)
(* nearest enclosing one first (its dict alone when it is outermost).      *)
(***************************************************************************)
\* The call at position i of the log is a continuation-mode call of p that is
\* not followed by p invoking its continuation.
ReturnsWithoutDelegating(log, p, i) ==
    /\ log[i].ev = "call" /\ log[i].p = p /\ log[i].first = "continuation"
    /\ ~(i + 1 <= Len(log) /\ log[i + 1].ev = "cont" /\ log[i + 1].p = p)

\* The keys of the first n implementations of the chain f, the innermost of
\* them first.
KeysOutward(f, n) == [k \in 1..n |-> KeyOf(f[n + 1 - k])]

\* The implementations ahead of position n of the chain f all set their key
\* in the result they receive.
AddersAhead(f, n) ==
    \A k \in 1..(n - 1) :
        plugin_classes[f[k]].body = "add" /\ ~IsObserver(f[k])

\* C11: a continuation-mode implementation that does not delegate cancels the
\* rest of the chain, and its value is the result of the inner chain.
C11_Cancellation ==
    last.called =>
        LET log == last.log
            f == last.filters
        IN  \A p \in Implementers : \A i \in AtOf(log, "call", p) :
                ReturnsWithoutDelegating(log, p, i) =>
                    /\ At(log, "base") = {}
                    /\ \A j \in 1..Len(log) :
                         log[j].p \in Range(f) /\ Pos(f, log[j].p) <= Pos(f, p)
                    /\ \A j \in (i + 1)..Len(log) :
                         /\ log[j].ev \in {"result", "call"}
                         /\ Pos(f, log[j].p) < Pos(f, p)
                    /\ i < Len(log) =>
                         /\ log[i + 1].ev = "result" /\ log[i + 1].first = "dict"
                         /\ ~IsContinuation(log[i + 1].p)
                         /\ \A k \in (Pos(f, log[i + 1].p) + 1)..(Pos(f, p) - 1) :
                              IsContinuation(f[k])
                    /\ AddersAhead(f, Pos(f, p)) =>
                         last.out = Ret(PyDict(<<KeyOf(p)>> \o KeysOutward(f, Pos(f, p) - 1)))

\* Of three implementers the middle one, continuation-mode, returned its own
\* dict without delegating: the result-mode implementation ahead of it added
\* its key, and neither the implementation after it nor the base method ran.
C11_Witness ==
    /\ last.called
    /\ Len(last.filters) = 3
    /\ IsResult(last.filters[1]) /\ plugin_classes[last.filters[1]].body = "add"
    /\ IsContinuation(last.filters[2])
    /\ Len(last.log) >= 4
    /\ ReturnsWithoutDelegating(last.log, last.filters[2], 4)
    /\ plugin_classes[last.filters[3]].body = "add"
    /\ AtOf(last.log, "stage", last.filters[3]) = {}
    /\ At(last.log, "base") = {}
    /\ last.base = Ret(PyDict(<<"admin_view", "media">>))
    /\ last.out = Ret(PyDict(<<KeyOf(last.filters[2]), KeyOf(last.filters[1])>>))

(***************************************************************************)
(* C12  Failure propagation: an exception raised by the base method or by  *)
(* a plugin implementation is either caught by a continuation-mode         *)
(* implementation placed ahead of the raiser, inside its own call of the   *)
(* continuation, or it ends the hook invocation there and then: nothing    *)
(* runs after it (no enclosing result-mode or observer-mode                *)
(* implementation, no second run of anything) and the hook invocation      *)
(* raises that same exception.  After a catch only the stages enclosing    *)
(* the catcher go on.                                                      *)
(***************************************************************************)
\* The log entry at position i is the base method or an implementation
\* raising, and what it raises.
RaisesAt(log, i) ==
    \/ log[i].ev = "base" /\ IsRaise(last.base)
    \/ log[i].ev = "call" /\ plugin_classes[log[i].p].body = "raise"
RaisedAt(log, i) == IF log[i].ev = "base" THEN last.base.exc ELSE "PluginError"

\* The place in the chain of what the log entry at position i is about: the
\* base method comes after every implementation.
PlaceAt(log, i) ==
    IF log[i].ev = "base" THEN Len(last.filters) + 1 ELSE Pos(last.filters, log[i].p)

\* C12: an exception is caught by a continuation-mode plugin or raised by
\* the hook invocation as it is.
C12_Propagation ==
    last.called =>
        LET log == last.log
        IN  /\ \A i \in 1..Len(log) : RaisesAt(log, i) =>
                \/ i = Len(log) /\ last.out = Raise(RaisedAt(log, i))
                \/ /\ i < Len(log)
                   /\ log[i + 1].ev = "caught" /\ log[i + 1].first = RaisedAt(log, i)
                   /\ PlaceAt(log, i + 1) < PlaceAt(log, i)
                   /\ \E j \in AtOf(log, "cont", log[i + 1].p) : j < i
            /\ \A i \in At(log, "caught") :
                /\ IsContinuation(log[i].p) /\ plugin_classes[log[i].p].body = "catch"
                /\ \A j \in (i + 1)..Len(log) :
                     /\ log[j].ev \in {"result", "call", "caught"}
                     /\ PlaceAt(log, j) < PlaceAt(log, i)
            /\ (IsRaise(last.out) /\ last.out.exc # "IncorrectPluginArg" /\ log # <<>>) =>
                /\ RaisesAt(log, Len(log))
                /\ last.out = Raise(RaisedAt(log, Len(log)))

\* The base method raised inside a chain of a result-mode, an observer-mode
\* and a continuation-mode implementation: all three stages had started, the
\* hook invocation raised BaseError and neither the result-mode nor the
\* observer-mode implementation was called.
C12_Witness ==
    /\ last.called
    /\ Len(last.filters) = 3
    /\ IsResult(last.filters[1]) /\ IsObserver(last.filters[2])
    /\ IsContinuation(last.filters[3]) /\ plugin_classes[last.filters[3]].body = "pass"
    /\ last.base = Raise("BaseError")
    /\ last.out = Raise("BaseError")
    /\ last.log[Len(last.log)] = Event("base", 0, "", last.args)
    /\ AtOf(last.log, "call", last.filters[1]) = {}
    /\ AtOf(last.log, "call", last.filters[2]) = {}
    /\ AtOf(last.log, "call", last.filters[3]) # {}

(***************************************************************************)
(* C13  Argument forwarding: in a hook invocation with arguments A every   *)
(* continuation-mode or result-mode implementation that is called gets A   *)
(* after its first argument, and every run of the base method gets exactly *)
(* A; a plugin that hands its continuation arguments of its own changes    *)
(* nothing for the inner stages: the call is a TypeError there and then,   *)
(* nothing placed after the plugin runs on it, and the hook invocation     *)
(* raises the TypeError.                                                   *)
(***************************************************************************)
C13_Forwarding ==
    last.called =>
        LET log == last.log
        IN  /\ \A i \in At(log, "call") :
                 log[i].first \in {"continuation", "result"} => log[i].a = last.args
            /\ \A i \in At(log, "base") : log[i].a = last.args
            /\ \A i \in At(log, "cont") :
                 log[i].a # <<>> => i = Len(log) /\ last.out = Raise("TypeError")

\* A hook invoked with a positional and a keyword argument ran a
\* continuation-mode and a result-mode implementation and the base method,
\* each with these two arguments.
C13_Witness ==
    /\ last.called
    /\ last.args = <<"model", "commit=False">>
    /\ Len(last.filters) = 2
    /\ IsContinuation(last.filters[1]) /\ IsResult(last.filters[2])
    /\ \E i \in AtOf(last.log, "call", last.filters[1]) : last.log[i].a = last.args
    /\ \E i \in AtOf(last.log, "call", last.filters[2]) : last.log[i].a = last.args
    /\ \E i \in At(last.log, "base") : last.log[i].a = last.args
    /\ ~IsRaise(last.out)

(***************************************************************************)
(* C16  Continuation re-invocation: the engine never evaluates the inner   *)
(* chain of a continuation-mode stage itself; what is placed next after an *)
(* implementation (the next stage, or the base method after the last one)  *)
(* starts exactly as many times as the continuation was invoked: by the    *)
(* plugin for a continuation-mode stage, by the engine for the others.     *)
(* In a chain that runs, of implementations that all delegate and set      *)
(* their key, on a                                                         *)
(* base method returning a dict, every continuation-mode implementation    *)
(* that calls its continuation twice doubles the runs of all that is       *)
(* placed after it, base method included, and the hook invocation returns  *)
(* the composed dict: there is no guard and no contract-violation error.   *)
(***************************************************************************)
\* What starts when the continuation of the k-th implementation of the chain
\* f is invoked: the positions in the log where it did.
StartsAfter(log, f, k) ==
    IF k = Len(f) THEN At(log, "base") ELSE AtOf(log, "stage", f[k + 1])

\* The invocations of the continuation of plugin p: by p itself, without
\* arguments, or by the engine.
Continuations(log, p) ==
    IF IsContinuation(p)
    THEN {i \in AtOf(log, "cont", p) : log[i].a = <<>>}
    ELSE AtOf(log, "eager", p)

CallsTwice(p) == IsContinuation(p) /\ plugin_classes[p].body = "twice"

\* Every implementer delegates and sets its key.
Delegating ==
    /\ Implementers # {}
    /\ \A p \in Implementers :
         \/ plugin_classes[p].body = "add" /\ ~IsObserver(p)
         \/ CallsTwice(p)

\* The number of runs of what is at place k of the chain f (Len(f) + 1: the
\* base method) when every implementation delegates.
RECURSIVE RunsOf(_, _)
RunsOf(f, k) ==
    IF k = 1 THEN 1
    ELSE RunsOf(f, k - 1) * (IF CallsTwice(f[k - 1]) THEN 2 ELSE 1)

\* C16: the inner chain runs once per invocation of the continuation.
C16_Reinvocation ==
    last.called =>
        LET log == last.log
            f == last.filters
        IN  /\ \A p \in Implementers : IsContinuation(p) => AtOf(log, "eager", p) = {}
            /\ \A k \in 1..Len(f) :
                 Cardinality(StartsAfter(log, f, k)) = Cardinality(Continuations(log, f[k]))
            /\ (Delegating /\ ~IsRaise(last.base) /\ last.base.val.ty = "dict"
                    /\ log # <<>>) =>
                 /\ \A k \in 1..Len(f) :
                      Cardinality(AtOf(log, "call", f[k])) = RunsOf(f, k)
                 /\ Cardinality(At(log, "base")) = RunsOf(f, Len(f) + 1)
                 /\ last.out = Ret(PyDict(last.base.val.v \o KeysOutward(f, Len(f))))

\* A continuation-mode implementation called its continuation twice around a
\* continuation-mode and a result-mode implementation: both of them and the
\* base method ran twice, and the hook invocation returned the composed dict.
C16_Witness ==
    /\ last.called
    /\ Len(last.filters) = 3
    /\ CallsTwice(last.filters[1])
    /\ IsContinuation(last.filters[2]) /\ plugin_classes[last.filters[2]].body = "add"
    /\ IsResult(last.filters[3])
    /\ Cardinality(AtOf(last.log, "cont", last.filters[1])) = 2
    /\ Cardinality(AtOf(last.log, "call", last.filters[2])) = 2
    /\ Cardinality(AtOf(last.log, "call", last.filters[3])) = 2
    /\ Cardinality(At(last.log, "base")) = 2
    /\ ~IsRaise(last.out) /\ last.out.val.ty = "dict"

(***************************************************************************)
(* C14  Default priority: an implementation without a priority attribute   *)
(* is ordered as one with priority 10: in the chain it comes after every   *)
(* implementation with a priority below 10 and before every one with a     *)
(* priority above 10, whatever the attachment order, and its stage starts  *)
(* accordingly; against an implementation with priority 10, or another     *)
(* one without priority, the attachment order decides.                     *)
(***************************************************************************)
HasPriority(p) == plugin_classes[p].hasprio
GivenPriority(p) == plugin_classes[p].prio

\* p comes before q in the chain of the latest invocation, and in what ran
\* of it the stage of p started before the stage of q did.
Precedes(p, q) ==
    /\ Pos(last.filters, p) < Pos(last.filters, q)
    /\ last.log # <<>> => AtOf(last.log, "stage", p) # {}
    /\ \A j \in AtOf(last.log, "stage", q) : \E i \in AtOf(last.log, "stage", p) : i < j

\* C14: no priority attribute means priority 10.
C14_DefaultPriority ==
    last.called =>
        \A p, q \in Implementers :
            (p # q /\ ~HasPriority(p)) =>
                /\ (HasPriority(q) /\ GivenPriority(q) < 10) => Precedes(q, p)
                /\ (HasPriority(q) /\ GivenPriority(q) > 10) => Precedes(p, q)
                /\ ((HasPriority(q) /\ GivenPriority(q) = 10) \/ ~HasPriority(q)) =>
                     IF Pos(plugins, p) < Pos(plugins, q) THEN Precedes(p, q) ELSE Precedes(q, p)

\* Attached in the order priority 20, no priority, priority 5, the three
\* implementations ran in the order 5, none, 20.
C14_Witness ==
    /\ last.called
    /\ plugins = <<1, 2, 3>> /\ Implementers = {1, 2, 3}
    /\ HasPriority(1) /\ GivenPriority(1) = 20
    /\ ~HasPriority(2)
    /\ HasPriority(3) /\ GivenPriority(3) = 5
    /\ last.filters = <<3, 2, 1>>
    /\ Precedes(3, 2) /\ Precedes(2, 1)
    /\ AtOf(last.log, "stage", 1) # {}

(***************************************************************************)
(* C15  Observer-mode sequencing: the stage of an observer-mode            *)
(* implementation begins with the engine evaluating the inner chain, once  *)
(* per stage, and the plugin never invokes a continuation.  When the inner *)
(* chain returned None the implementation is called next, with no argument *)
(* at all whatever the arguments of the hook, and what it returns is the   *)
(* result of the stage: the enclosing stage receives it, and the caller    *)
(* does when the stage is outermost.  When the inner chain returned a      *)
(* value the implementation is not called at all, although the inner chain *)
(* has run: the base method ran once unless a continuation-mode            *)
(* implementation placed after the observer did not delegate.              *)
(***************************************************************************)
\* What the implementation of observer-mode plugin p returns.
ObserverReturns(p) ==
    IF plugin_classes[p].body = "value" THEN PyDict(<<KeyOf(p)>>) ELSE PyNone

\* A continuation-mode implementation placed after p in the chain f does
\* not delegate.
CancelledAfter(f, p) ==
    \E k \in (Pos(f, p) + 1)..Len(f) :
        IsContinuation(f[k]) /\ plugin_classes[f[k]].body = "value"

\* C15: inner chain first, then the implementation without arguments, or
\* not at all.
C15_ObserverSequence ==
    last.called =>
        LET log == last.log
            f == last.filters
        IN  \A p \in Implementers : IsObserver(p) =>
                /\ \A i \in AtOf(log, "stage", p) :
                     i + 1 <= Len(log) /\ log[i + 1] = Event("eager", p, "", <<>>)
                /\ Cardinality(AtOf(log, "eager", p)) = Cardinality(AtOf(log, "stage", p))
                /\ Cardinality(AtOf(log, "eager", p)) <= 1
                /\ AtOf(log, "cont", p) = {}
                /\ \A c \in AtOf(log, "call", p) :
                     /\ log[c] = Event("call", p, "nothing", <<>>)
                     /\ c > 1 /\ log[c - 1] = Event("result", p, "None", <<>>)
                /\ \A j \in AtOf(log, "result", p) :
                     IF log[j].first = "None"
                     THEN /\ j + 1 <= Len(log) /\ log[j + 1] = Event("call", p, "nothing", <<>>)
                          /\ j + 2 <= Len(log) =>
                               /\ log[j + 2].ev = "result"
                               /\ log[j + 2].first = ObserverReturns(p).ty
                          /\ Pos(f, p) = 1 => last.out = Ret(ObserverReturns(p))
                     ELSE /\ AtOf(log, "call", p) = {}
                          /\ ~CancelledAfter(f, p) =>
                               /\ Cardinality(At(log, "base")) = 1
                               /\ \A b \in At(log, "base") : b < j

\* A hook invoked with an argument: the base method returned None, the
\* result-mode implementation passed it on, and the observer-mode one ahead
\* of it was called without arguments; the dict it returned is the result.
C15_Witness ==
    /\ last.called
    /\ last.args = <<"model">>
    /\ last.base = Ret(PyNone)
    /\ Len(last.filters) = 2
    /\ IsObserver(last.filters[1]) /\ plugin_classes[last.filters[1]].body = "value"
    /\ IsResult(last.filters[2])
    /\ last.log[Len(last.log)] = Event("call", last.filters[1], "nothing", <<>>)
    /\ \E i \in AtOf(last.log, "call", last.filters[2]) : last.log[i].a = <<"model">>
    /\ last.out = Ret(PyDict(<<KeyOf(last.filters[1])>>))

(***************************************************************************)
(* C17  Only None counts as no result: when the base method runs and returns a *)
(* value that is present but empty or falsy (an empty dict, an empty list, *)
(* an empty string, 0, False) and it reaches an observer-mode stage        *)
(* through implementations that pass it on, that stage raises              *)
(* IncorrectPluginArg exactly as it does on a non-empty dict: its          *)
(* implementation is not called, nothing runs after it, and the hook       *)
(* invocation raises IncorrectPluginArg; on None it does not.              *)
(***************************************************************************)
\* Every implementer is observer-mode or passes the inner result on, and one
\* at least is observer-mode.
ObservedThrough ==
    /\ \E p \in Implementers : IsObserver(p)
    /\ \A p \in Implementers : IsObserver(p) \/ plugin_classes[p].body = "pass"

\* The observer-mode implementer nearest to the base method.
InnermostObserver ==
    CHOOSE p \in Implementers :
        /\ IsObserver(p)
        /\ \A q \in Implementers :
             IsObserver(q) => Pos(last.filters, q) <= Pos(last.filters, p)

\* C17: empty and falsy results violate the observer contract like any
\* other value.
C17_NoneOnly ==
    (last.called /\ ObservedThrough /\ ~IsRaise(last.base) /\ At(last.log, "base") # {}) =>
        LET log == last.log
            p == InnermostObserver
        IN  IF last.base.val = PyNone
            THEN /\ AtOf(log, "call", p) # {}
                 /\ \A j \in AtOf(log, "result", p) : log[j].first = "None"
                 /\ (\A q \in Implementers \ {p} : ~IsObserver(q)) => ~IsRaise(last.out)
            ELSE /\ last.out = Raise("IncorrectPluginArg")
                 /\ log[Len(log)] = Event("result", p, last.base.val.ty, <<>>)
                 /\ \A i \in At(log, "call") : log[i].first # "nothing"
                 /\ Cardinality(At(log, "base")) = 1

\* The base method returned False through a result-mode implementation to an
\* observer-mode stage: IncorrectPluginArg, the observer not called.
C17_Witness ==
    /\ last.called /\ ObservedThrough
    /\ last.base = Ret(PyFalse)
    /\ Len(last.filters) = 2
    /\ IsObserver(last.filters[1]) /\ IsResult(last.filters[2])
    /\ last.out = Raise("IncorrectPluginArg")
    /\ last.log[Len(last.log)] = Event("result", last.filters[1], "bool", <<>>)
    /\ AtOf(last.log, "call", last.filters[1]) = {}
    /\ AtOf(last.log, "call", last.filters[2]) # {}

(***************************************************************************)
(* C18  Nested hooks of the same name: when the body of the decorated      *)
(* method calls the inherited decorated method of the same name, that call *)
(* builds and runs the host's whole chain again, from its outermost stage, *)
(* around the inherited body; without it (BaseAdminView's own method) the  *)
(* chain runs once.  When every implementer delegates and sets its key and *)
(* the inherited body returns a dict, one invocation calls every           *)
(* implementation exactly twice and runs each body once; a continuation-   *)
(* mode implementation is entered for the outer run before the inner run   *)
(* starts, a result-mode implementation is called for the outer run only   *)
(* after the inner run and the rest of the outer body have completed; and  *)
(* the result holds the inherited keys, the implementers' keys and the     *)
(* keys of the outer body.                                                 *)
(***************************************************************************)
\* The position in the log of the one entry of a kind.
TheOne(log, ev) == CHOOSE i \in At(log, ev) : TRUE

\* C18: the chain runs once at each level of a nested hook.
C18_NestedHook ==
    last.called =>
        LET log == last.log
            f == last.filters
        IN  /\ last.base.kind # "super" =>
                 /\ At(log, "super") = {}
                 /\ \A p \in Implementers : Cardinality(AtOf(log, "call", p)) <= 1
            /\ \A i \in At(log, "super") :
                 /\ last.base.kind = "super"
                 /\ i > 1 /\ log[i - 1] = Event("base", 0, "", last.args)
                 /\ i + 1 <= Len(log)
                 /\ log[i + 1] = IF Implementers = {}
                                 THEN Event("base", 0, "", <<>>)
                                 ELSE Event("stage", Outermost, "", <<>>)
            /\ (last.base = Super(Ret(PyDict(<<"admin_view", "media">>))) /\ Transformers) =>
                 /\ Cardinality(At(log, "super")) = 1
                 /\ Cardinality(At(log, "super_done")) = 1
                 /\ Cardinality(At(log, "base")) = 2
                 /\ \A p \in Implementers :
                      /\ Cardinality(AtOf(log, "call", p)) = 2
                      /\ Cardinality(AtOf(log, "stage", p)) = 2
                      /\ \E c1, c2 \in AtOf(log, "call", p) :
                           IF IsContinuation(p)
                           THEN /\ c1 < TheOne(log, "super")
                                /\ TheOne(log, "super") < c2 /\ c2 < TheOne(log, "super_done")
                           ELSE /\ TheOne(log, "super") < c1 /\ c1 < TheOne(log, "super_done")
                                /\ TheOne(log, "super_done") < c2
                 /\ last.out = Ret(PyDict(<<"admin_view", "media">> \o KeysOutward(f, Len(f))
                                           \o <<"nav_menu", "site_title">>))

\* One invocation on a host whose method calls the inherited one, with a
\* result-mode and a continuation-mode implementer: both were called twice,
\* the result-mode one after the inner run and then after the outer body.
C18_Witness ==
    /\ last.called
    /\ last.base = Super(Ret(PyDict(<<"admin_view", "media">>)))
    /\ Cardinality(Implementers) = 2 /\ Transformers
    /\ \E p, q \in Implementers :
         /\ IsResult(p) /\ IsContinuation(q)
         /\ Cardinality(AtOf(last.log, "call", p)) = 2
         /\ Cardinality(AtOf(last.log, "call", q)) = 2
         /\ \E c \in AtOf(last.log, "call", p) : \E d \in At(last.log, "super_done") : d < c
    /\ Cardinality(At(last.log, "base")) = 2
    /\ ~IsRaise(last.out)

(***************************************************************************)
(* C13 as claimed, for every argument list: every continuation-mode or     *)
(* result-mode implementation that is called gets the arguments A of the   *)
(* invocation after its first argument; the base method is invoked, with   *)
(* exactly A, whenever nothing implements the hook or every implementer    *)
(* delegates; and a plugin handing its continuation other arguments runs   *)
(* nothing on them.                                                        *)
(***************************************************************************)
C13_Original ==
    last.called =>
        LET log == last.log
        IN  /\ \A i \in At(log, "call") :
                 log[i].first \in {"continuation", "result"} => log[i].a = last.args
            /\ \A i \in At(log, "base") : log[i].a = last.args
            /\ (Implementers = {} \/ Delegating) => At(log, "base") # {}
            /\ \A i \in At(log, "cont") :
                 log[i].a # <<>> => i = Len(log) /\ last.out = Raise("TypeError")

====
